---- MODULE Spec2Model ----
(***************************************************************************)
(* Shadowsocks 2022 service (src/unnamed/part_000, package                 *)
(* shadowaead_2022) and the duplex relay of src/common/bufio/copy.go.      *)
(*                                                                         *)
(* The module holds one state machine per part of the program:             *)
(*   SpecTime    the timestamp step of NewConnection and of NewPacket      *)
(*   SpecPacket  Service.NewPacket, called from concurrent goroutines      *)
(*   SpecConn    Service.NewConnection and the salt replay filter          *)
(*   SpecWrite   serverConn.Write / writeResponse                          *)
(*   SpecRelay   CopyConn / CopyPacketConn and their task group            *)
(*   SpecOut     serverPacketWriter.WritePacket and nextPacketId           *)
(*   SpecCopy    the copy loops of CopyExtended and CopyPacket             *)
(* A specification leaves the variables of the other parts at their idle   *)
(* values.                                                                 *)
(***************************************************************************)
EXTENDS Integers, Sequences, FiniteSets, TLC

VARIABLES
    now,        \* time.Now().Unix() of the server
    tmEpoch,    \* SpecTime: the 8-byte timestamp read from the wire
    tmStream,   \* SpecTime: outcome of NewConnection's timestamp step
    tmPacket,   \* SpecTime: outcome of NewPacket's timestamp step
    method,     \* Service: "unified" (udpCipher != nil) or "split" (udpBlockCipher)
    sessions,   \* Service.sessions: sessionId -> session object (0: no entry)
    heap,       \* the serverUDPSession objects allocated so far
    call,       \* the goroutines inside NewPacket and their locals
    delivered,  \* udpNat.NewPacket: deliveries per <<sessionId, packetId>>
    ncalls,     \* NewPacket calls started so far
    rollbacks,  \* 1 once a returnErr has deleted a just-created session
    replayFilter, \* Service.replayFilter: salt -> time it was recorded (-1: never)
    hs,         \* the goroutines inside NewConnection and their locals
    log,        \* the handshakes so far, in the order of their salt checks
    nticks,     \* clock advances so far
    conn,       \* the serverConn: writer, requestSalt and the holder of access
    wr,         \* the goroutines inside serverConn.Write and their position
    wire,       \* what the underlying connection has received, in order
    nwrites,    \* Write calls so far
    relay,      \* the relay session: its kind, its task group and its context
    pump,       \* the two pumps: where each stands and the error it ended with
    ep,         \* the two endpoints: full closes, write-half close, capability
    moved,      \* buffers relayed so far
    outMode,    \* the Service of the writer: "unified" or "split"
    outSession, \* the serverUDPSession the packet writer points to
    outWriter,  \* the serverPacketWriter of the NAT entry (source "none": not built)
    outCall,    \* the goroutines inside WritePacket and their locals
    sent,       \* the datagrams handed to PacketConn.WritePacket, in order
    stamps,     \* the values nextPacketId returned, in the order it was applied
    ninbound,   \* inbound packets processed so far
    cp,         \* the copy loop: its inputs, its position and its locals
    cbuf,       \* the buffer of the current iteration, as the sink is to see it
    reads,      \* lengths of the chunks the source has yielded, in order
    sunk,       \* the buffers the sink has accepted, in order
    retired     \* release counts of the buffers of finished iterations

timeVars == <<tmEpoch, tmStream, tmPacket>>

packetVars == <<method, sessions, heap, call, delivered, ncalls, rollbacks>>

connVars == <<replayFilter, hs, log, nticks>>

writeVars == <<conn, wr, wire, nwrites>>

relayVars == <<relay, pump, ep, moved>>

outVars == <<outMode, outSession, outWriter, outCall, sent, stamps, ninbound>>

copyVars == <<cp, cbuf, reads, sunk, retired>>

vars == <<now, timeVars, packetVars, connVars, writeVars, relayVars, outVars, copyVars>>

(* The values a part's variables keep while another part runs.             *)

CopyIdle ==
    /\ cp = <<>>
    /\ cbuf = <<>>
    /\ reads = <<>>
    /\ sunk = <<>>
    /\ retired = {}

OutIdle ==
    /\ outMode = "unified"
    /\ outSession = <<>>
    /\ outWriter = [source |-> "none"]
    /\ outCall = <<>>
    /\ sent = <<>>
    /\ stamps = <<>>
    /\ ninbound = 0

RelayIdle ==
    /\ relay = <<>>
    /\ pump = <<>>
    /\ ep = <<>>
    /\ moved = 0

WriteIdle ==
    /\ conn = <<>>
    /\ wr = <<>>
    /\ wire = <<>>
    /\ nwrites = 0

ConnIdle ==
    /\ replayFilter = <<>>
    /\ hs = <<>>
    /\ log = <<>>
    /\ nticks = 0

TimeIdle ==
    /\ tmEpoch = 0
    /\ tmStream = "unchecked"
    /\ tmPacket = "unchecked"

PacketIdle ==
    /\ method = "unified"
    /\ sessions = <<>>
    /\ heap = <<>>
    /\ call = <<>>
    /\ delivered = <<>>
    /\ ncalls = 0
    /\ rollbacks = 0

-----------------------------------------------------------------------------
(* Machine words.  uint64 / int64 are modelled with WordBits bits: the     *)
(* arithmetic below is the arithmetic of Go's fixed-width integers with    *)
(* 2^64 replaced by 2^WordBits.                                            *)

WordBits == 8

Modulus == 2 ^ WordBits

HalfModulus == 2 ^ (WordBits - 1)

\* math.MaxUint64
MaxUint == Modulus - 1

\* math.MaxInt64
MaxInt == HalfModulus - 1

\* uint64(x): reduction modulo 2^w
ToUint(x) == x % Modulus

\* int64(x): two's complement reinterpretation / wrap-around of a signed result
ToInt(x) == ((x + HalfModulus) % Modulus) - HalfModulus

Abs(x) == IF x < 0 THEN -x ELSE x

\* float64 keeps 53 significant bits of a 64-bit integer; the scaled word
\* keeps WordBits - 2 of WordBits.
MantissaBits == WordBits - 2

RECURSIVE RoundExp(_, _)
\* the power of two q such that x / q has exactly MantissaBits significant bits
RoundExp(x, q) == IF x \div q < 2 ^ MantissaBits THEN q ELSE RoundExp(x, 2 * q)

\* round a natural number to MantissaBits significant bits, ties to even
RoundNat(x) ==
    LET q  == RoundExp(x, 1)
        lo == (x \div q) * q
        r  == x - lo
    IN  IF 2 * r < q THEN lo
        ELSE IF 2 * r > q THEN lo + q
        ELSE IF (x \div q) % 2 = 0 THEN lo ELSE lo + q

\* float64(x) for an integer x
Float64(x) == IF x < 0 THEN -RoundNat(-x) ELSE RoundNat(x)

-----------------------------------------------------------------------------
(* The timestamp steps.                                                    *)

TimestampTolerance == 30

\* bug the stream check could have: the unsigned subtraction of the packet path
StreamTimestampOk_unsigned(t, epoch) ==
    ~(Abs(Float64(ToUint(ToUint(t) - epoch))) > TimestampTolerance)

\* NewConnection: math.Abs(float64(time.Now().Unix()-int64(epoch))) > 30
StreamTimestampOk(t, epoch) ==
    ~(Abs(Float64(ToInt(t - ToInt(epoch)))) > TimestampTolerance)

\* NewPacket: math.Abs(float64(uint64(time.Now().Unix())-epoch)) > 30
PacketTimestampOk(t, epoch) ==
    ~(Abs(Float64(ToUint(ToUint(t) - epoch))) > TimestampTolerance)

\* Server clocks: time.Now().Unix() is a non-negative int64 that is more than
\* the tolerance away from both ends of its range.
ClockValues == TimestampTolerance .. (MaxInt - TimestampTolerance)

\* every value the 8-byte big-endian field can carry
EpochValues == 0 .. MaxUint

InitTime ==
    /\ PacketIdle
    /\ ConnIdle
    /\ WriteIdle
    /\ RelayIdle
    /\ OutIdle
    /\ CopyIdle
    /\ now \in ClockValues
    /\ tmEpoch \in EpochValues
    /\ tmStream = "unchecked"
    /\ tmPacket = "unchecked"

\* NewConnection, lines 107-114
StreamTimestampStep ==
    /\ tmStream = "unchecked"
    /\ tmStream' = IF StreamTimestampOk(now, tmEpoch) THEN "ok" ELSE "ErrBadTimestamp"
    /\ UNCHANGED <<now, tmEpoch, tmPacket>>
    /\ UNCHANGED <<packetVars, connVars, writeVars, relayVars, outVars, copyVars>>

\* NewPacket, lines 279-287
PacketTimestampStep ==
    /\ tmPacket = "unchecked"
    /\ tmPacket' = IF PacketTimestampOk(now, tmEpoch) THEN "ok" ELSE "ErrBadTimestamp"
    /\ UNCHANGED <<now, tmEpoch, tmStream>>
    /\ UNCHANGED <<packetVars, connVars, writeVars, relayVars, outVars, copyVars>>

NextTime == StreamTimestampStep \/ PacketTimestampStep

SpecTime == InitTime /\ [][NextTime]_vars

\* the distance between the server time and the timestamp, in the integers
ClockSkew == Abs(now - tmEpoch)

\* C5: in the stream handshake the timestamp step rejects with ErrBadTimestamp
\* exactly when the timestamp differs from the server time by more than 30
\* seconds, and passes when the difference is 30 or less, in both directions.
C5_StreamTimestampWindow ==
    tmStream # "unchecked" =>
        ((tmStream = "ErrBadTimestamp") <=> (ClockSkew > TimestampTolerance))

\* a timestamp exactly 30 seconds in the future has passed the stream check
C5_Witness ==
    /\ tmStream = "ok"
    /\ tmEpoch = now + TimestampTolerance

\* C6: the datagram path passes the timestamp step exactly when the timestamp
\* differs from the server time by 30 seconds or less, whether the timestamp
\* is earlier or later than the server time.
C6_PacketTimestampWindow ==
    tmPacket # "unchecked" =>
        ((tmPacket = "ok") <=> (ClockSkew <= TimestampTolerance))

-----------------------------------------------------------------------------
(* The per-session replay window, wgReplay.Filter                          *)
(* (golang.zx2c4.com/wireguard/replay, the sliding window of RFC 6479):    *)
(* a ring of RingBlocks words of BlockBits bits and the greatest counter   *)
(* seen.  `bits` holds the positions (counter mod RingBlocks*BlockBits)    *)
(* of the bits that are set.                                               *)

BlockBits == 64

RingBlocks == 128

WindowSize == (RingBlocks - 1) * BlockBits

\* the zero value of wgReplay.Filter
ZeroFilter == [last |-> 0, bits |-> {}]

\* ring position of a counter, and the ring word a position lies in
BitPos(counter) == counter % (RingBlocks * BlockBits)

BlockOf(pos) == pos \div BlockBits

\* the ring words ValidateCounter clears when the window moves from `last`
\* forward to `counter`
ClearedBlocks(last, counter) ==
    LET current == last \div BlockBits
        diff    == (counter \div BlockBits) - current
        capped  == IF diff > RingBlocks THEN RingBlocks ELSE diff
    IN  { i % RingBlocks : i \in (current + 1) .. (current + capped) }

\* Filter.ValidateCounter(counter, limit) run on the filter value f that the
\* caller read, writing into the filter value cur that is in memory when it
\* writes: [ok, filter].  With cur = f this is the sequential function; with
\* cur # f it is what two unsynchronised callers produce (the filter holds
\* no lock).
ValidateCounter(f, cur, counter, limit) ==
    IF counter >= limit THEN [ok |-> FALSE, filter |-> cur]
    ELSE IF counter <= f.last /\ f.last - counter > WindowSize
    THEN [ok |-> FALSE, filter |-> cur]
    ELSE
        LET forward == counter > f.last
            cleared == IF forward THEN ClearedBlocks(f.last, counter) ELSE {}
            pos     == BitPos(counter)
            word    == { b \in f.bits : BlockOf(b) = BlockOf(pos)
                                        /\ BlockOf(b) \notin cleared }
            kept    == { b \in cur.bits : BlockOf(b) # BlockOf(pos)
                                          /\ BlockOf(b) \notin cleared }
        IN  [ok     |-> pos \notin word,
             filter |-> [last |-> IF forward THEN counter ELSE cur.last,
                         bits |-> kept \cup word \cup {pos}]]

-----------------------------------------------------------------------------
(* Service.NewPacket.                                                      *)

MaxPackets == 3

\* NewPacket touches only the table entry of the session id in the header:
\* the model follows one session id
SessionIds == {1}

\* packet ids on the wire: the first two and math.MaxUint64
PacketIds == {0, 1, MaxUint}

\* source addresses of datagrams (metadata.Source): two distinct peers
Addrs == {"addrA", "addrB"}

\* The goroutines that call NewPacket.  Goroutines are interchangeable: a
\* call that starts while no other call runs is g1's, g2 only ever runs a
\* call that overlaps one of g1.
Callers == {"g1", "g2"}

\* session objects that can be referenced at once: one per table entry and
\* one per caller
Slots == 1 .. (Cardinality(SessionIds) + Cardinality(Callers))

\* The header of a datagram, lines 215-234, as far as NewPacket reads it:
\* ok is false when the unified AEAD open of the whole packet fails or the
\* buffer is too short for the two ids.
Headers == [sid : SessionIds, pid : PacketIds, src : Addrs, ok : BOOLEAN]

NoHeader == [sid |-> 0, pid |-> 0, src |-> "none", ok |-> FALSE]

\* What is wrong with the rest of a datagram, by the step that finds it:
\*   body        line 261 (split suite: AEAD open of the body)
\*   headerType  lines 269-277,  padding  lines 290-294,  address  lines 297-300
\* A timestamp fault is an epoch the check of line 284 refuses.
Faults(m) ==
    {"none", "headerType", "padding", "address"}
        \cup (IF m = "split" THEN {"body"} ELSE {})

\* a timestamp inside and one outside the window of the server time t
PacketEpochs(t) == {t, ToUint(t - TimestampTolerance - 1)}

Bodies(m, t) ==
    { b \in [fault : Faults(m), epoch : PacketEpochs(t)] :
        b.fault = "none" \/ b.epoch = t }

NoSession == [sessionId |-> 0]

\* Service.newUDPSession: the session object allocated in slot idx.
\* sessionId stands for the 8 random bytes, packetId is 0 decremented once,
\* cipher is keyed by the own session id in the split suite only.
newUDPSession(m, idx) ==
    [sessionId       |-> idx,
     packetId        |-> ToUint(0 - 1),
     cipher          |-> IF m = "split" THEN idx ELSE 0,
     remoteSessionId |-> 0,
     remoteAddr      |-> "none",
     remoteCipher    |-> 0,
     filter          |-> ZeroFilter]

IdleCall ==
    [pc |-> "idle", hdr |-> NoHeader, sess |-> 0, loaded |-> FALSE,
     snap |-> ZeroFilter, err |-> "nil", solo |-> FALSE, changed |-> FALSE]

InitPacket ==
    /\ TimeIdle
    /\ ConnIdle
    /\ WriteIdle
    /\ RelayIdle
    /\ OutIdle
    /\ CopyIdle
    /\ now = 2 * TimestampTolerance
    /\ method \in {"unified", "split"}
    /\ sessions = [s \in SessionIds |-> 0]
    /\ heap = [i \in Slots |-> NoSession]
    /\ call = [c \in Callers |-> IdleCall]
    /\ delivered = [k \in SessionIds \X PacketIds |-> 0]
    /\ ncalls = 0
    /\ rollbacks = 0

\* a nil remoteCipher was dereferenced: the process is gone
Panicked == \E c \in Callers : call[c].pc = "panic"

Others(c) == Callers \ {c}

\* the session objects still referenced by the table or by a running call;
\* the others are garbage and their slots are free
Collect(h, tbl, cl) ==
    [i \in Slots |->
        IF (\E s \in SessionIds : tbl[s] = i)
           \/ (\E c \in Callers : cl[c].pc # "idle" /\ cl[c].sess = i)
        THEN h[i] ELSE NoSession]

FreeSlot == CHOOSE i \in Slots : heap[i] = NoSession /\
                \A j \in Slots : heap[j] = NoSession => i <= j

\* lines 213-236: decrypt the header, read the two ids, LoadOrStore.
\* A header fault returns before the Session Table is touched.
Begin(c, h) ==
    /\ call[c].pc = "idle"
    /\ ~Panicked
    /\ ncalls < MaxPackets
    /\ (c = "g2") => call["g1"].pc # "idle"
    /\ ncalls' = ncalls + 1
    /\ IF ~h.ok
       THEN UNCHANGED <<sessions, heap, call>>
       ELSE LET alone == \A d \in Others(c) : call[d].pc = "idle"
                others == [d \in Callers |-> IF d = c THEN call[d]
                                             ELSE [call[d] EXCEPT !.solo = FALSE]]
            IN  IF sessions[h.sid] # 0
                THEN /\ call' = [others EXCEPT ![c] =
                           [IdleCall EXCEPT !.pc = "addr", !.hdr = h,
                                            !.sess = sessions[h.sid], !.loaded = TRUE,
                                            !.solo = alone]]
                     /\ UNCHANGED <<sessions, heap>>
                ELSE /\ heap' = [heap EXCEPT ![FreeSlot] = newUDPSession(method, FreeSlot)]
                     /\ sessions' = [sessions EXCEPT ![h.sid] = FreeSlot]
                     /\ call' = [others EXCEPT ![c] =
                           [IdleCall EXCEPT !.pc = "init1", !.hdr = h,
                                            !.sess = FreeSlot, !.loaded = FALSE,
                                            !.solo = alone]]
    /\ UNCHANGED <<now, method, delivered, rollbacks>>
    /\ UNCHANGED <<timeVars, connVars, writeVars, relayVars, outVars, copyVars>>

\* line 238
InitRemoteSessionId(c) ==
    /\ call[c].pc = "init1"
    /\ ~Panicked
    /\ heap' = [heap EXCEPT ![call[c].sess].remoteSessionId = call[c].hdr.sid]
    /\ call' = [call EXCEPT ![c].pc = IF method = "split" THEN "init2" ELSE "addr"]
    /\ UNCHANGED <<now, method, sessions, delivered, ncalls, rollbacks>>
    /\ UNCHANGED <<timeVars, connVars, writeVars, relayVars, outVars, copyVars>>

\* lines 239-242: the key is derived from the 8 header bytes of the session id
InitRemoteCipher(c) ==
    /\ call[c].pc = "init2"
    /\ ~Panicked
    /\ heap' = [heap EXCEPT ![call[c].sess].remoteCipher = call[c].hdr.sid]
    /\ call' = [call EXCEPT ![c].pc = "addr"]
    /\ UNCHANGED <<now, method, sessions, delivered, ncalls, rollbacks>>
    /\ UNCHANGED <<timeVars, connVars, writeVars, relayVars, outVars, copyVars>>

\* line 244
SetRemoteAddr(c) ==
    /\ call[c].pc = "addr"
    /\ ~Panicked
    /\ heap' = [heap EXCEPT ![call[c].sess].remoteAddr = call[c].hdr.src]
    /\ call' = [call EXCEPT ![c].pc = "vread",
                            ![c].changed = @ \/ heap'[call[c].sess] # heap[call[c].sess]]
    /\ UNCHANGED <<now, method, sessions, delivered, ncalls, rollbacks>>
    /\ UNCHANGED <<timeVars, connVars, writeVars, relayVars, outVars, copyVars>>

\* line 255, first half: ValidateCounter reads the filter
ValidateRead(c) ==
    /\ call[c].pc = "vread"
    /\ ~Panicked
    /\ call' = [call EXCEPT ![c].snap = heap[call[c].sess].filter,
                            ![c].pc = "vwrite"]
    /\ UNCHANGED <<now, method, sessions, heap, delivered, ncalls, rollbacks>>
    /\ UNCHANGED <<timeVars, connVars, writeVars, relayVars, outVars, copyVars>>

\* lines 255-258, second half: ValidateCounter writes the filter and answers
ValidateWrite(c) ==
    /\ call[c].pc = "vwrite"
    /\ ~Panicked
    /\ LET r == ValidateCounter(call[c].snap, heap[call[c].sess].filter,
                                call[c].hdr.pid, MaxUint)
       IN  /\ heap' = [heap EXCEPT ![call[c].sess].filter = r.filter]
           /\ call' = [call EXCEPT
                   ![c].snap = ZeroFilter,
                   ![c].changed = @ \/ heap'[call[c].sess] # heap[call[c].sess],
                   ![c].err = IF r.ok THEN "nil" ELSE "ErrPacketIdNotUnique",
                   ![c].pc = IF r.ok THEN "open" ELSE "returnErr"]
    /\ UNCHANGED <<now, method, sessions, delivered, ncalls, rollbacks>>
    /\ UNCHANGED <<timeVars, connVars, writeVars, relayVars, outVars, copyVars>>

\* the error of lines 260-300 for a packet of session id sid with body b, when
\* the session's remoteCipher is rc; "nil" when the packet parses
ParseError(m, t, sid, b, rc) ==
    IF m = "split" /\ rc = 0 THEN "panic"
    ELSE IF m = "split" /\ (b.fault = "body" \/ rc # sid) THEN "decrypt packet"
    ELSE IF b.fault = "headerType" THEN "ErrBadHeaderType"
    ELSE IF ~PacketTimestampOk(t, b.epoch) THEN "ErrBadTimestamp"
    ELSE IF b.fault = "padding" THEN "read padding length"
    ELSE IF b.fault = "address" THEN "read address"
    ELSE "nil"

\* bug the rollback could have: the just-created session stays in the table
\* when the failure is found after the replay check
Rollback_replayOnly(c, e) ==
    /\ ~call[c].loaded
    /\ e = "ErrPacketIdNotUnique"

\* line 249: whether returnErr deletes the table entry
Rollback(c, e) == ~call[c].loaded

\* lines 248-252, the returnErr label, reached with error e
ReturnErrEffect(c, e) ==
    LET tbl == IF Rollback(c, e) THEN [sessions EXCEPT ![call[c].hdr.sid] = 0]
               ELSE sessions
        cl  == [call EXCEPT ![c] = IdleCall]
    IN  /\ sessions' = tbl
        /\ call' = cl
        /\ heap' = Collect(heap, tbl, cl)
        /\ rollbacks' = IF Rollback(c, e) THEN 1 ELSE rollbacks

\* lines 256-257 and 248-252: the replay check failed
ReturnErr(c) ==
    /\ call[c].pc = "returnErr"
    /\ ~Panicked
    /\ ReturnErrEffect(c, call[c].err)
    /\ UNCHANGED <<now, method, delivered, ncalls>>
    /\ UNCHANGED <<timeVars, connVars, writeVars, relayVars, outVars, copyVars>>

\* lines 260-300: open the body (split suite), read header type, timestamp,
\* padding and destination; on an error, lines 248-252.  Everything after
\* the read of session.remoteCipher works on the call's own buffer.
OpenAndParse(c, b) ==
    /\ call[c].pc = "open"
    /\ ~Panicked
    /\ LET e == ParseError(method, now, call[c].hdr.sid, b,
                           heap[call[c].sess].remoteCipher)
       IN  IF e \in {"panic", "nil"}
           THEN /\ call' = [call EXCEPT
                       ![c].pc = IF e = "panic" THEN "panic" ELSE "deliver"]
                /\ UNCHANGED <<sessions, heap, rollbacks>>
           ELSE ReturnErrEffect(c, e)
    /\ UNCHANGED <<now, method, delivered, ncalls>>
    /\ UNCHANGED <<timeVars, connVars, writeVars, relayVars, outVars, copyVars>>

\* lines 301-306: hand the packet to the NAT dispatcher and return nil
Deliver(c) ==
    /\ call[c].pc = "deliver"
    /\ ~Panicked
    /\ delivered' = [delivered EXCEPT ![<<call[c].hdr.sid, call[c].hdr.pid>>] = @ + 1]
    /\ LET cl == [call EXCEPT ![c] = IdleCall]
       IN  /\ call' = cl
           /\ heap' = Collect(heap, sessions, cl)
    /\ UNCHANGED <<now, method, sessions, ncalls, rollbacks>>
    /\ UNCHANGED <<timeVars, connVars, writeVars, relayVars, outVars, copyVars>>

NextPacket ==
    \E c \in Callers :
        \/ \E h \in Headers : Begin(c, h)
        \/ InitRemoteSessionId(c)
        \/ InitRemoteCipher(c)
        \/ SetRemoteAddr(c)
        \/ ValidateRead(c)
        \/ ValidateWrite(c)
        \/ \E b \in Bodies(method, now) : OpenAndParse(c, b)
        \/ ReturnErr(c)
        \/ Deliver(c)

SpecPacket == InitPacket /\ [][NextPacket]_vars

\* C1: at most one datagram with a given (sessionId, packetId) pair is ever
\* delivered to the NAT dispatcher, under any interleaving of NewPacket calls.
C1_DeliveredAtMostOnce ==
    \A k \in DOMAIN delivered : delivered[k] <= 1

\* C2: a call that rejects a datagram of an existing session as a replay
\* leaves every field of the session and the Session Table as they were
\* before the call (stated for a call that no other call overlaps).
C2_ReplayRejectChangesNothing ==
    [][ \A c \in Callers :
          ( /\ call[c].pc = "returnErr"
            /\ call'[c].pc = "idle"
            /\ call[c].err = "ErrPacketIdNotUnique"
            /\ call[c].loaded
            /\ call[c].solo )
          => /\ ~call[c].changed
             /\ sessions' = sessions
             /\ heap'[call[c].sess] = heap[call[c].sess]
      ]_vars

\* C3: when a call that created the session (no entry for the id before it)
\* returns an error, the Session Table has no entry for the id afterwards;
\* and a datagram for an id with no entry that gets past the header is taken
\* as a first packet: a new session object is stored and loaded is false.
C3_FailedFirstPacketLeavesNoEntry ==
    [][ \A c \in Callers :
          /\ ( /\ call[c].pc \in {"returnErr", "open"}
               /\ call'[c].pc = "idle"
               /\ ~call[c].loaded )
             => sessions'[call[c].hdr.sid] = 0
          /\ ( /\ call[c].pc = "idle"
               /\ call'[c].pc # "idle"
               /\ sessions[call'[c].hdr.sid] = 0 )
             => /\ ~call'[c].loaded
                /\ sessions'[call'[c].hdr.sid] = call'[c].sess
                /\ heap[call'[c].sess] = NoSession
                /\ heap'[call'[c].sess] = newUDPSession(method, call'[c].sess)
      ]_vars

\* a first packet was rolled back, the table has no entry for its id, and a
\* later datagram for that id is being processed as a first packet
C3_Witness ==
    /\ rollbacks > 0
    /\ \E c \in Callers :
        /\ call[c].pc = "init1"
        /\ ~call[c].loaded
        /\ \A d \in Others(c) : call[d].pc = "idle"

\* C19: in split-suite mode a call that loaded an existing session opens the
\* packet body only with a session whose remoteCipher is set and whose
\* remoteSessionId is the packet's session id.
C19_LoadedSessionInitialised ==
    \A c \in Callers :
        ( /\ method = "split"
          /\ call[c].loaded
          /\ call[c].pc \in {"panic", "deliver"} )
        => /\ heap[call[c].sess].remoteCipher # 0
           /\ heap[call[c].sess].remoteSessionId = call[c].hdr.sid

\* C20: for an existing session, the replay check refuses a packet id only
\* when a datagram with that id was delivered: a datagram rejected after the
\* replay check has not used up its id (stated for a call that no other call
\* overlaps, and for ids below the limit of the counter).
C20_RejectedPacketKeepsId ==
    [][ \A c \in Callers :
          ( /\ call[c].pc = "vwrite"
            /\ call'[c].pc = "returnErr"
            /\ call[c].loaded
            /\ call[c].solo
            /\ call[c].hdr.pid < MaxUint )
          => delivered[<<call[c].hdr.sid, call[c].hdr.pid>>] > 0
      ]_vars

-----------------------------------------------------------------------------
(* Service.NewConnection and the salt replay filter.                       *)

ReplayWindow == 60

MaxHandshakes == 3

MaxTicks == 3

\* request salts on the wire
Salts == {"saltA", "saltB"}

\* the goroutines that call NewConnection
Acceptors == {"h1", "h2"}

\* clock advances between two steps: a second, and a second short of the window
TickSteps == {1, ReplayWindow - 1}

\* replay.NewCuckoo(60): nothing recorded
EmptyFilter == [x \in Salts |-> -1]

\* replay.Filter.Check(salt) at time t: false when the salt was recorded less
\* than ReplayWindow seconds ago, and then nothing is recorded; otherwise the
\* salt is recorded.  The filter is probabilistic: with collide, the
\* fingerprint of a salt that was not recorded matches a recorded one and
\* Check answers false as well.
Check(f, salt, t, collide) ==
    IF f[salt] >= 0 /\ t - f[salt] < ReplayWindow
    THEN [ok |-> FALSE, filter |-> f]
    ELSE IF collide THEN [ok |-> FALSE, filter |-> f]
    ELSE [ok |-> TRUE, filter |-> [f EXCEPT ![salt] = t]]

\* What is wrong with the handshake after its salt, by the step that finds it:
\*   key          lines 98-101 (the first AEAD chunk does not open)
\*   headerType   lines 103-105,  destination  lines 116-119,
\*   padding      lines 121-132
\* A timestamp fault is an epoch the check of line 112 refuses.
RequestFaults == {"none", "key", "headerType", "destination", "padding"}

Requests(t) ==
    { r \in [fault : RequestFaults, epoch : PacketEpochs(t)] :
        r.fault = "none" \/ r.epoch = t }

\* the error of lines 98-132 for request r read at time t, "nil" when the
\* handshake is complete
RequestError(t, r) ==
    IF r.fault = "key" THEN "read header"
    ELSE IF r.fault = "headerType" THEN "ErrBadHeaderType"
    ELSE IF ~StreamTimestampOk(t, r.epoch) THEN "ErrBadTimestamp"
    ELSE IF r.fault = "destination" THEN "read destination"
    ELSE IF r.fault = "padding" THEN "read padding length"
    ELSE "nil"

IdleHandshake == [pc |-> "idle", entry |-> 0]

InitConn ==
    /\ TimeIdle
    /\ PacketIdle
    /\ WriteIdle
    /\ RelayIdle
    /\ OutIdle
    /\ CopyIdle
    /\ now = 2 * TimestampTolerance
    /\ replayFilter = EmptyFilter
    /\ hs = [a \in Acceptors |-> IdleHandshake]
    /\ log = <<>>
    /\ nticks = 0

\* time passes
Tick(d) ==
    /\ nticks < MaxTicks
    /\ nticks' = nticks + 1
    /\ now' = now + d
    /\ UNCHANGED <<replayFilter, hs, log>>
    /\ UNCHANGED <<timeVars, packetVars, writeVars, relayVars, outVars, copyVars>>

\* bug the handshake could have: the answer of the filter is ignored
SaltUnique_ignored(r) == TRUE

\* line 87: the condition under which the handshake goes on
SaltUnique(r) == r.ok

\* lines 81-89: read the request salt and check it against the replay filter
ReadSalt(a, salt, collide) ==
    /\ hs[a].pc = "idle"
    /\ Len(log) < MaxHandshakes
    \* the acceptors are interchangeable: h2 is the one that comes second
    /\ (a = "h2") => hs["h1"].pc # "idle"
    /\ LET r == Check(replayFilter, salt, now, collide)
       IN  /\ replayFilter' = r.filter
           /\ log' = Append(log, [salt |-> salt, at |-> now, recorded |-> r.ok,
                                  result |-> IF SaltUnique(r) THEN "pending"
                                             ELSE "salt not unique"])
           /\ hs' = [hs EXCEPT ![a] =
                   IF SaltUnique(r) THEN [pc |-> "header", entry |-> Len(log) + 1]
                   ELSE IdleHandshake]
    /\ UNCHANGED <<now, nticks>>
    /\ UNCHANGED <<timeVars, packetVars, writeVars, relayVars, outVars, copyVars>>

\* lines 91-142: derive the key, read header type, timestamp, destination and
\* padding, and hand the connection to the handler
ReadRequest(a, r) ==
    /\ hs[a].pc = "header"
    /\ LET e == RequestError(now, r)
       IN  log' = [log EXCEPT ![hs[a].entry].result =
                   IF e = "nil" THEN "handler" ELSE "error"]
    /\ hs' = [hs EXCEPT ![a] = IdleHandshake]
    /\ UNCHANGED <<now, nticks, replayFilter>>
    /\ UNCHANGED <<timeVars, packetVars, writeVars, relayVars, outVars, copyVars>>

NextConn ==
    \/ \E d \in TickSteps : Tick(d)
    \/ \E a \in Acceptors :
        \/ \E salt \in Salts, collide \in BOOLEAN : ReadSalt(a, salt, collide)
        \/ \E r \in Requests(now) : ReadRequest(a, r)

SpecConn == InitConn /\ [][NextConn]_vars

-----------------------------------------------------------------------------
(* serverConn.Write and serverConn.writeResponse.                          *)

MaxWrites == 3

\* the goroutines that call Write on the one serverConn
Writers == {"w1", "w2"}

\* the request salt NewConnection read and stored in the serverConn
RequestSalt == "saltA"

\* what the underlying connection does with the buffered response:
\*   ok       header and payload are written
\*   refused  nothing is written and the write fails
\*   cut      the first chunk (it holds the header) is written and a later
\*            write of the same response fails
WriteOutcomes == {"ok", "refused", "cut"}

Header(echo) == [kind |-> "header", echo |-> echo]

Payload == [kind |-> "payload", echo |-> "none"]

\* a serverConn as NewConnection builds it (lines 136-141)
InitWrite ==
    /\ TimeIdle
    /\ PacketIdle
    /\ ConnIdle
    /\ RelayIdle
    /\ OutIdle
    /\ CopyIdle
    /\ now = 2 * TimestampTolerance
    /\ conn = [writer |-> "nil", requestSalt |-> RequestSalt, access |-> "free"]
    /\ wr = [w \in Writers |-> "idle"]
    /\ wire = <<>>
    /\ nwrites = 0

\* line 190, outside the lock: the read of c.writer races with the assignment
\* of line 184 in another goroutine and may still see nil
WriteEnter(w, seen) ==
    /\ wr[w] = "idle"
    /\ nwrites < MaxWrites
    /\ seen \in {conn.writer} \cup (IF conn.writer # w THEN {"nil"} ELSE {})
    /\ nwrites' = nwrites + 1
    /\ wr' = [wr EXCEPT ![w] = IF seen # "nil" THEN "direct" ELSE "lock"]
    /\ UNCHANGED <<conn, wire, now>>
    /\ UNCHANGED <<timeVars, packetVars, connVars, relayVars, outVars, copyVars>>

\* line 193
Lock(w) ==
    /\ wr[w] = "lock"
    /\ conn.access = "free"
    /\ conn' = [conn EXCEPT !.access = w]
    /\ wr' = [wr EXCEPT ![w] = "locked"]
    /\ UNCHANGED <<wire, nwrites, now>>
    /\ UNCHANGED <<timeVars, packetVars, connVars, relayVars, outVars, copyVars>>

\* lines 194-197: under the lock the writer is read again
Recheck(w) ==
    /\ wr[w] = "locked"
    /\ IF conn.writer # "nil"
       THEN /\ conn' = [conn EXCEPT !.access = "free"]
            /\ wr' = [wr EXCEPT ![w] = "direct"]
       ELSE /\ conn' = conn
            /\ wr' = [wr EXCEPT ![w] = "respond"]
    /\ UNCHANGED <<wire, nwrites, now>>
    /\ UNCHANGED <<timeVars, packetVars, connVars, relayVars, outVars, copyVars>>

\* lines 191 and 196: c.writer.Write(p)
WriteDirect(w, ok) ==
    /\ wr[w] = "direct"
    /\ wire' = IF ok THEN Append(wire, Payload) ELSE wire
    /\ wr' = [wr EXCEPT ![w] = "idle"]
    /\ UNCHANGED <<conn, nwrites, now>>
    /\ UNCHANGED <<timeVars, packetVars, connVars, relayVars, outVars, copyVars>>

\* lines 172-184: c.writer is assigned only when payload and flush succeeded
WriterAfter(w, outcome) == IF outcome = "ok" THEN w ELSE "nil"

\* lines 153-187 and the deferred Unlock of line 198
WriteResponse(w, outcome) ==
    /\ wr[w] = "respond"
    /\ LET header == Header(conn.requestSalt)
       IN  wire' = IF outcome = "ok" THEN wire \o <<header, Payload>>
                   ELSE IF outcome = "cut" THEN Append(wire, header)
                   ELSE wire
    /\ conn' = [conn EXCEPT !.requestSalt = "nil",
                            !.writer = WriterAfter(w, outcome),
                            !.access = "free"]
    /\ wr' = [wr EXCEPT ![w] = "idle"]
    /\ UNCHANGED <<nwrites, now>>
    /\ UNCHANGED <<timeVars, packetVars, connVars, relayVars, outVars, copyVars>>

NextWrite ==
    \E w \in Writers :
        \/ \E seen \in Writers \cup {"nil"} : WriteEnter(w, seen)
        \/ Lock(w)
        \/ Recheck(w)
        \/ \E ok \in BOOLEAN : WriteDirect(w, ok)
        \/ \E outcome \in WriteOutcomes : WriteResponse(w, outcome)

SpecWrite == InitWrite /\ [][NextWrite]_vars

Headers_on(wi) == {i \in 1 .. Len(wi) : wi[i].kind = "header"}

\* C7: the response header is written to the underlying connection at most
\* once, and no payload is written before it.
C7_HeaderOnceBeforePayload ==
    /\ Cardinality(Headers_on(wire)) <= 1
    /\ \A i \in 1 .. Len(wire) :
           wire[i].kind = "payload" => \E j \in Headers_on(wire) : j < i

\* C8: every response header written carries the original request salt as its
\* echoed salt, also when an earlier Write on the connection failed.
C8_HeaderEchoesRequestSalt ==
    \A i \in Headers_on(wire) : wire[i].echo = RequestSalt

-----------------------------------------------------------------------------
(* CopyConn and CopyPacketConn: two pumps in a task group.                 *)

MaxChunks == 2

Pumps == {"upload", "download"}

Endpoints == {"conn", "dest"}

Sibling(p) == IF p = "upload" THEN "download" ELSE "upload"

\* upload is Copy(dest, conn), download is Copy(conn, dest)
ReadsFrom(p) == IF p = "upload" THEN "conn" ELSE "dest"

WritesTo(p) == IF p = "upload" THEN "dest" ELSE "conn"

Blocked(p) == pump[p].pc \in {"read", "write"}

Exited(p) == pump[p].pc = "done"

\* CopyConn or CopyPacketConn on two open endpoints; duplex says whether the
\* endpoint has CloseWrite.  Packet endpoints have no half-close.
InitRelay ==
    /\ TimeIdle
    /\ PacketIdle
    /\ ConnIdle
    /\ WriteIdle
    /\ OutIdle
    /\ CopyIdle
    /\ now = 2 * TimestampTolerance
    /\ \E kind \in {"conn", "packet"} :
           relay = [kind |-> kind, fastFail |-> (kind = "packet"),
                    ctxDone |-> FALSE, cancelled |-> FALSE, cleaned |-> FALSE,
                    returned |-> FALSE, stranded |-> FALSE]
    /\ \E d \in [Endpoints -> BOOLEAN] :
           /\ relay.kind = "packet" => \A e \in Endpoints : ~d[e]
           /\ ep = [e \in Endpoints |->
                        [closes |-> 0, writeClosed |-> FALSE, duplex |-> d[e]]]
    /\ pump = [p \in Pumps |-> [pc |-> "read", err |-> "nil"]]
    /\ moved = 0

\* common.Close on each endpoint of es
Close(eps, es) ==
    [e \in Endpoints |->
        IF e \in es THEN [eps[e] EXCEPT !.closes = @ + 1] ELSE eps[e]]

\* rw.CloseWrite: the write half is closed when the endpoint can do it
CloseWrite(eps, e) ==
    IF eps[e].duplex THEN [eps EXCEPT ![e].writeClosed = TRUE] ELSE eps

\* the pump's read returns: a buffer, the end of the stream (streams only), or
\* an error of the endpoint
PumpRead(p, r) ==
    /\ pump[p].pc = "read"
    /\ ep[ReadsFrom(p)].closes = 0
    /\ r = "eof" => relay.kind = "conn"
    /\ r = "data" => moved < MaxChunks
    /\ pump' = [pump EXCEPT ![p] =
                   IF r = "data" THEN [pc |-> "write", err |-> "nil"]
                   ELSE [pc |-> "exit", err |-> IF r = "eof" THEN "nil" ELSE "error"]]
    /\ UNCHANGED <<relay, ep, moved, now>>
    /\ UNCHANGED <<timeVars, packetVars, connVars, writeVars, outVars, copyVars>>

\* the pump's write returns
PumpWrite(p, ok) ==
    /\ pump[p].pc = "write"
    /\ ep[WritesTo(p)].closes = 0
    /\ ok => ~ep[WritesTo(p)].writeClosed
    /\ pump' = [pump EXCEPT ![p] =
                   IF ok THEN [pc |-> "read", err |-> "nil"]
                   ELSE [pc |-> "exit", err |-> "error"]]
    /\ moved' = IF ok THEN moved + 1 ELSE moved
    /\ UNCHANGED <<relay, ep, now>>
    /\ UNCHANGED <<timeVars, packetVars, connVars, writeVars, outVars, copyVars>>

\* a read or write blocked on a closed endpoint returns an error
PumpUnblock(p) ==
    /\ Blocked(p)
    /\ ep[IF pump[p].pc = "read" THEN ReadsFrom(p) ELSE WritesTo(p)].closes > 0
    /\ pump' = [pump EXCEPT ![p] = [pc |-> "exit", err |-> "error"]]
    /\ UNCHANGED <<relay, ep, moved, now>>
    /\ UNCHANGED <<timeVars, packetVars, connVars, writeVars, outVars, copyVars>>

\* the deferred call of the pump (CopyConn only):
\*   upload    rw.CloseWrite(dest)                          lines 170-173
\*   download  rw.CloseWrite(conn) when conn has CloseWrite,  lines 174-178
\*             common.Close(conn) otherwise                  lines 179-183
Deferred(p) ==
    IF relay.kind = "packet" THEN ep
    ELSE IF p = "upload" THEN CloseWrite(ep, "dest")
    ELSE IF ep["conn"].duplex THEN CloseWrite(ep, "conn")
    ELSE Close(ep, {"conn"})

\* task.Group: the group is cancelled as soon as a task exits, a fast-fail
\* group when a task exits with an error
Cancels(err) == ~relay.fastFail \/ err # "nil"

\* the pump returns: its deferred call runs and the group takes note
PumpExit(p) ==
    /\ pump[p].pc = "exit"
    /\ ep' = Deferred(p)
    /\ pump' = [pump EXCEPT ![p].pc = "done"]
    /\ relay' = [relay EXCEPT
                   !.cancelled = @ \/ Cancels(pump[p].err),
                   !.stranded = @ \/ Blocked(Sibling(p))]
    /\ UNCHANGED <<moved, now>>
    /\ UNCHANGED <<timeVars, packetVars, connVars, writeVars, outVars, copyVars>>

\* the caller's context is cancelled
CtxCancel ==
    /\ ~relay.ctxDone
    /\ ~relay.returned
    /\ relay' = [relay EXCEPT !.ctxDone = TRUE, !.cancelled = TRUE]
    /\ UNCHANGED <<pump, ep, moved, now>>
    /\ UNCHANGED <<timeVars, packetVars, connVars, writeVars, outVars, copyVars>>

\* bug the cleanup could have: it closes nothing
CleanupTargets_none == {}

\* lines 185-187 and 307-309: common.Close(conn, dest)
CleanupTargets == {"conn", "dest"}

\* task.Group.Run: once the group is cancelled or every task is done, the
\* cleanup runs, once
Cleanup ==
    /\ ~relay.cleaned
    /\ relay.cancelled \/ \A p \in Pumps : Exited(p)
    /\ ep' = Close(ep, CleanupTargets)
    /\ relay' = [relay EXCEPT !.cleaned = TRUE]
    /\ UNCHANGED <<pump, moved, now>>
    /\ UNCHANGED <<timeVars, packetVars, connVars, writeVars, outVars, copyVars>>

\* task.Group.Run returns after the cleanup, when every task is done
RunReturn ==
    /\ relay.cleaned
    /\ ~relay.returned
    /\ \A p \in Pumps : Exited(p)
    /\ relay' = [relay EXCEPT !.returned = TRUE]
    /\ UNCHANGED <<pump, ep, moved, now>>
    /\ UNCHANGED <<timeVars, packetVars, connVars, writeVars, outVars, copyVars>>

NextRelay ==
    \/ \E p \in Pumps :
        \/ \E r \in {"data", "eof", "error"} : PumpRead(p, r)
        \/ \E ok \in BOOLEAN : PumpWrite(p, ok)
        \/ PumpUnblock(p)
        \/ PumpExit(p)
    \/ CtxCancel
    \/ Cleanup
    \/ RunReturn

SpecRelay == InitRelay /\ [][NextRelay]_vars

\* The goroutines and the group make progress; what the peers send, and
\* whether the caller cancels, is up to the environment.
RelayFairness ==
    /\ \A p \in Pumps : WF_vars(PumpUnblock(p)) /\ WF_vars(PumpExit(p))
    /\ WF_vars(Cleanup)
    /\ WF_vars(RunReturn)

SpecRelayFair == SpecRelay /\ RelayFairness

\* C9: when the relay returns, each endpoint has been closed exactly once.
C9_EachEndpointClosedOnce ==
    relay.returned => \A e \in Endpoints : ep[e].closes = 1

DuplexCopyConn ==
    relay.kind = "conn" /\ \A e \in Endpoints : ep[e].duplex

-----------------------------------------------------------------------------
(* serverPacketWriter.WritePacket and serverUDPSession.nextPacketId.       *)

MaxOutbound == 3

MaxInbound == 2

\* length of the nonce at the front of a unified-mode datagram
PacketNonceSize == 24

\* aes.BlockSize: the header block of a split-suite datagram
BlockSize == 16

\* the goroutines that call WritePacket on the one packet writer
Senders == {"p1", "p2"}

\* lengths of the payload handed to WritePacket
PayloadLens == {0, PacketNonceSize, PacketNonceSize + 1}

IdleSend == [pc |-> "idle", len |-> 0, dataIndex |-> 0, id |-> 0]

\* the session of an established NAT entry: NewPacket has created it, and the
\* first datagram, from addrA, has built the packet writer (lines 303-305)
InitOut ==
    /\ TimeIdle
    /\ PacketIdle
    /\ ConnIdle
    /\ WriteIdle
    /\ RelayIdle
    /\ CopyIdle
    /\ now = 2 * TimestampTolerance
    /\ outMode \in {"unified", "split"}
    /\ outSession = [newUDPSession(outMode, 1) EXCEPT !.remoteSessionId = 1,
                                                      !.remoteAddr = "addrA"]
    /\ outWriter = [source |-> "addrA"]
    /\ outCall = [p \in Senders |-> IdleSend]
    /\ sent = <<>>
    /\ stamps = <<>>
    /\ ninbound = 0

\* NewPacket for a well-formed datagram of the session from address src:
\* line 244 stores the source address; udpNat.NewPacket (lines 303-305) calls
\* the writer constructor only for a NAT entry it does not have yet
Inbound(src) ==
    /\ ninbound < MaxInbound
    /\ ninbound' = ninbound + 1
    /\ outSession' = [outSession EXCEPT !.remoteAddr = src]
    /\ outWriter' = IF outWriter.source = "none" THEN [source |-> src] ELSE outWriter
    /\ UNCHANGED <<outMode, outCall, sent, stamps, now>>
    /\ UNCHANGED <<timeVars, packetVars, connVars, writeVars, relayVars, copyVars>>

\* lines 322-328: where WritePacket takes the sealed data to start
DataIndex(m, len) == IF m = "unified" THEN len ELSE BlockSize

\* lines 316-328
WritePacketBegin(p, len) ==
    /\ outCall[p].pc = "idle"
    /\ outWriter.source # "none"
    /\ Len(stamps) < MaxOutbound
    /\ (p = "p2") => outCall["p1"].pc # "idle"
    /\ outCall' = [outCall EXCEPT ![p] =
                      [pc |-> "stamp", len |-> len,
                       dataIndex |-> DataIndex(outMode, len), id |-> 0]]
    /\ UNCHANGED <<outMode, outSession, outWriter, sent, stamps, ninbound, now>>
    /\ UNCHANGED <<timeVars, packetVars, connVars, writeVars, relayVars, copyVars>>

\* bug nextPacketId could have: the counter is read and not advanced
nextPacketId_stuck(session) == session

\* lines 371-373: atomic.AddUint64(&s.packetId, 1)
nextPacketId(session) == [session EXCEPT !.packetId = ToUint(@ + 1)]

\* line 332
Stamp(p) ==
    /\ outCall[p].pc = "stamp"
    /\ outSession' = nextPacketId(outSession)
    /\ outCall' = [outCall EXCEPT ![p].id = outSession'.packetId,
                                  ![p].pc = "seal"]
    /\ stamps' = Append(stamps, outSession'.packetId)
    /\ UNCHANGED <<outMode, outWriter, sent, ninbound, now>>
    /\ UNCHANGED <<timeVars, packetVars, connVars, writeVars, relayVars, copyVars>>

\* the nonce handed to Seal: header.To(dataIndex) in unified mode (line 350),
\* packetHeader[4:16] in split-suite mode (line 354)
NonceLen(m, dataIndex) == IF m = "unified" THEN dataIndex ELSE BlockSize - 4

\* lines 333-358: the rest of the header, the destination and the payload are
\* written, the packet is sealed from dataIndex and handed to the underlying
\* PacketConn with w.source as its address.  addrOk: WriteAddrPort succeeded.
SealAndSend(p, addrOk) ==
    /\ outCall[p].pc = "seal"
    /\ sent' = IF addrOk
               THEN Append(sent, [to |-> outWriter.source,
                                  peer |-> outSession.remoteAddr,
                                  id |-> outCall[p].id,
                                  mode |-> outMode,
                                  sealedFrom |-> outCall[p].dataIndex,
                                  nonceLen |-> NonceLen(outMode, outCall[p].dataIndex)])
               ELSE sent
    /\ outCall' = [outCall EXCEPT ![p] = IdleSend]
    /\ UNCHANGED <<outMode, outSession, outWriter, stamps, ninbound, now>>
    /\ UNCHANGED <<timeVars, packetVars, connVars, writeVars, relayVars, copyVars>>

NextOut ==
    \/ \E src \in Addrs : Inbound(src)
    \/ \E p \in Senders :
        \/ \E len \in PayloadLens : WritePacketBegin(p, len)
        \/ Stamp(p)
        \/ \E addrOk \in BOOLEAN : SealAndSend(p, addrOk)

SpecOut == InitOut /\ [][NextOut]_vars

\* C13: every outbound datagram is sent to the session's last known peer
\* address, the source of the most recent inbound packet of the session.
C13_SentToLastKnownPeer ==
    \A i \in 1 .. Len(sent) : sent[i].to = sent[i].peer

\* C14: in unified mode the sealed region starts at offset PacketNonceSize and
\* the nonce is the first PacketNonceSize bytes, whatever the payload length.
C14_SealedAfterNonce ==
    \A i \in 1 .. Len(sent) :
        sent[i].mode = "unified"
            => /\ sent[i].sealedFrom = PacketNonceSize
               /\ sent[i].nonceLen = PacketNonceSize

\* C15: the packet ids of a session are pairwise distinct and strictly
\* increasing in the order nextPacketId is applied, the first one is 0, and
\* each datagram carries the id its call was given.
C15_PacketIdsIncreaseFromZero ==
    /\ \A i \in 1 .. Len(stamps) : stamps[i] = i - 1
    /\ \A i, j \in 1 .. Len(sent) : i # j => sent[i].id # sent[j].id
    /\ \A i \in 1 .. Len(sent) : \E j \in 1 .. Len(stamps) : sent[i].id = stamps[j]

\* two WritePacket calls overlapped, both were stamped, and the one stamped
\* second sent its datagram first
C15_Witness ==
    /\ Len(stamps) >= 2
    /\ Len(sent) >= 1
    /\ sent[1].id = 1
    /\ \E p \in Senders : outCall[p].pc = "seal" /\ outCall[p].id = 0

-----------------------------------------------------------------------------
(* The copy loops of copy.go: CopyExtended, CopyPacket and their variants. *)

\* buf.BufferSize and buf.UDPBufferSize, scaled
BufferSize == 4

\* largest front or rear headroom a sink declares
MaxHeadroom == 1

\* N.CalculateMTU when the endpoints declare one
MtuHint == 2

MaxReads == 3

Headrooms == 0 .. MaxHeadroom

\* N.CalculateMTU: 0 when no endpoint declares an MTU
Mtus == {0, MtuHint}

\* lines 59-69 and 191-203: the loop CopyExtended (stream) or CopyPacket
\* (packet) runs for a source that hands out its own buffers (srcUnsafe), a
\* sink that keeps the buffers it is given (dstUnsafe) and the sink's headroom
ChooseLoop(kind, srcUnsafe, dstUnsafe, headroom) ==
    IF srcUnsafe /\ headroom = 0 THEN "srcBuffer"
    ELSE IF dstUnsafe THEN "pool"
    ELSE "stack"

\* lines 70-75, 135-142, 204-209 and 266-273: the size of the buffer
BufferSizeFor(mtu, headroom) ==
    IF mtu > 0 THEN mtu + headroom ELSE BufferSize

\* bug the loops could have: the read buffer spans the whole backing storage
ReadLimit_whole(capacity, rearHeadroom) == capacity

\* lines 89, 144 and 219: readBufferRaw[:cap(readBufferRaw)-rearHeadroom]
ReadLimit(capacity, rearHeadroom) == capacity - rearHeadroom

\* the room the source has for one read: the read buffer after
\* Resize(frontHeadroom, 0); a source that hands out its own buffers chooses
FreeLen(c) ==
    IF c.loop = "srcBuffer" THEN BufferSize
    ELSE ReadLimit(BufferSizeFor(c.mtu, c.f + c.r), c.r) - c.f

\* lengths a read may yield: nothing, one byte, a full buffer
ChunkLens(c) == {k \in {0, 1, FreeLen(c)} : k <= FreeLen(c)}

NoBuffer == [capacity |-> 0, start |-> 0, end |-> 0, chunk |-> 0, released |-> 0]

\* whether the loop obtains a buffer of its own in every iteration
PerIteration(c) == c.loop \in {"srcBuffer", "pool"}

\* CopyExtended or CopyPacket is called: the loop is chosen and has not read
InitCopy ==
    /\ TimeIdle
    /\ PacketIdle
    /\ ConnIdle
    /\ WriteIdle
    /\ RelayIdle
    /\ OutIdle
    /\ now = 2 * TimestampTolerance
    /\ \E kind \in {"stream", "packet"}, srcUnsafe, dstUnsafe, releasing \in BOOLEAN,
          f, r \in Headrooms, mtu \in Mtus :
           \* a sink that releases the buffer when its write fails:
           \* serverPacketWriter.WritePacket (part_000, line 317)
           /\ releasing => kind = "packet"
           /\ cp = [kind |-> kind, f |-> f, r |-> r, mtu |-> mtu,
                    sinkReleasesOnError |-> releasing,
                    loop |-> ChooseLoop(kind, srcUnsafe, dstUnsafe, f + r),
                    pc |-> "read", notFirstTime |-> FALSE, n |-> 0,
                    cause |-> "none", srcEnd |-> "none", err |-> "nil",
                    wrapped |-> FALSE,
                    iterations |-> 0]
    /\ cbuf = NoBuffer
    /\ reads = <<>>
    /\ sunk = <<>>
    /\ retired = {}

\* the source yields a chunk of k bytes: it is written into the read buffer
\* from frontHeadroom on, and the buffer is resized to it
\* (lines 92-101, 115-122, 143-153, 221-230, 245-252, 274-284)
ReadChunk(k) ==
    /\ cp.pc = "read"
    /\ Len(reads) < MaxReads
    /\ k \in ChunkLens(cp)
    /\ reads' = Append(reads, k)
    /\ cbuf' = IF cp.loop = "srcBuffer"
               THEN [capacity |-> k, start |-> 0, end |-> k,
                     chunk |-> Len(reads) + 1, released |-> 0]
               ELSE [capacity |-> BufferSizeFor(cp.mtu, cp.f + cp.r),
                     start |-> cp.f, end |-> cp.f + k,
                     chunk |-> Len(reads) + 1, released |-> 0]
    /\ cp' = [cp EXCEPT !.pc = "write"]
    /\ UNCHANGED <<sunk, retired, now>>
    /\ UNCHANGED <<timeVars, packetVars, connVars, writeVars, relayVars, outVars>>

\* bug the loops could have: every read error is taken for a handshake failure
FirstTime_always(notFirstTime) == TRUE

\* lines 95, 117, 146, 224, 247 and 276: if !notFirstTime
FirstTime(notFirstTime) == ~notFirstTime

\* the read fails with e, the end of the stream ("EOF") or another error
\* (lines 94-99, 116-121, 145-151, 223-228, 246-251, 275-281); the pooled
\* loops release the buffer they had taken for the read
ReadFails(e) ==
    /\ cp.pc = "read"
    /\ cp' = [cp EXCEPT !.pc = "done", !.cause = "read", !.srcEnd = e,
                        !.err = e,
                        !.wrapped = FirstTime(cp.notFirstTime)]
    /\ retired' = IF cp.loop = "pool" THEN retired \cup {1} ELSE retired
    /\ cbuf' = NoBuffer
    /\ UNCHANGED <<reads, sunk, now>>
    /\ UNCHANGED <<timeVars, packetVars, connVars, writeVars, relayVars, outVars>>

\* bug the loops could have: the chunk is not counted
Counted_lost(n, dataLen) == n

\* lines 106, 128, 163, 235, 258 and 294: n += int64(dataLen)
Counted(n, dataLen) == n + dataLen

\* the sink's write succeeds: the sink has the buffer (and releases it), the
\* chunk is counted (lines 102-107, 123-129, 155-164, 231-236, 253-259, 285-295)
WriteChunk ==
    /\ cp.pc = "write"
    /\ sunk' = Append(sunk, [chunk |-> cbuf.chunk,
                             len |-> cbuf.end - cbuf.start,
                             front |-> cbuf.start,
                             rear |-> cbuf.capacity - cbuf.end])
    /\ cp' = [cp EXCEPT !.pc = "read",
                        !.n = Counted(@, cbuf.end - cbuf.start),
                        !.notFirstTime = TRUE,
                        !.iterations = @ + 1]
    /\ retired' = IF PerIteration(cp) THEN retired \cup {cbuf.released + 1}
                  ELSE retired
    /\ cbuf' = NoBuffer
    /\ UNCHANGED <<reads, now>>
    /\ UNCHANGED <<timeVars, packetVars, connVars, writeVars, relayVars, outVars>>

\* the sink's write fails: the loop returns the error; the source-buffer and
\* pooled loops release the buffer (lines 103-105, 124-127, 156-159, 232-234,
\* 254-257, 286-289), after a sink that releases on its error path has
WriteFails ==
    /\ cp.pc = "write"
    /\ cp' = [cp EXCEPT !.pc = "done", !.cause = "write", !.err = "write error"]
    /\ LET bySink == IF cp.sinkReleasesOnError THEN 1 ELSE 0
       IN  retired' = IF PerIteration(cp)
                      THEN retired \cup {cbuf.released + bySink + 1}
                      ELSE retired
    /\ cbuf' = NoBuffer
    /\ UNCHANGED <<reads, sunk, now>>
    /\ UNCHANGED <<timeVars, packetVars, connVars, writeVars, relayVars, outVars>>

NextCopy ==
    \/ \E k \in 0 .. BufferSize : ReadChunk(k)
    \/ \E e \in {"EOF", "read error"} : ReadFails(e)
    \/ WriteChunk
    \/ WriteFails

SpecCopy == InitCopy /\ [][NextCopy]_vars

RECURSIVE SumLens(_)
SumLens(q) == IF q = <<>> THEN 0 ELSE Head(q) + SumLens(Tail(q))

\* C11: the sink has the chunks the source yielded, each once and in the
\* order read; n is the total length of the chunks written; and when the loop
\* ends on a read of the source, the sink has every chunk and n is their total.
C11_CopyPreservesBytes ==
    /\ \A i \in 1 .. Len(sunk) : sunk[i].chunk = i /\ sunk[i].len = reads[i]
    /\ cp.n = SumLens([i \in 1 .. Len(sunk) |-> sunk[i].len])
    /\ (cp.pc = "done" /\ cp.cause = "read")
           => Len(sunk) = Len(reads) /\ cp.n = SumLens(reads)

\* the source yielded MaxReads chunks, not all empty, then the end of the
\* stream, and the loop has returned
C11_Witness ==
    /\ cp.pc = "done"
    /\ cp.srcEnd = "EOF"
    /\ Len(reads) = MaxReads
    /\ cp.n > 1

\* C12: every buffer the sink is given has at least the front headroom before
\* its payload and at least the rear headroom after it.
C12_HeadroomKept ==
    \A i \in 1 .. Len(sunk) : sunk[i].front >= cp.f /\ sunk[i].rear >= cp.r

\* a sink with both headrooms was given a buffer the source had filled
C12_Witness ==
    /\ cp.f > 0
    /\ cp.r > 0
    /\ \E i \in 1 .. Len(sunk) :
           sunk[i].len = FreeLen(cp) /\ sunk[i].len > 0 /\ sunk[i].rear = cp.r

\* C16: a read error is passed through N.HandshakeFailure exactly when no
\* iteration was completed before it; a write error never is.
C16_HandshakeFailureOnFirstRead ==
    cp.pc = "done" =>
        (cp.wrapped <=> (cp.cause = "read" /\ cp.iterations = 0))

\* a read failed after a completed iteration and was returned as it was
C16_Witness ==
    /\ cp.pc = "done"
    /\ cp.cause = "read"
    /\ cp.iterations > 0
    /\ ~cp.wrapped

\* C17: when the source reports the end of the stream after at least one
\* chunk was relayed, the error the loop returns is nil.
C17_EndOfStreamIsNoError ==
    (cp.pc = "done" /\ cp.srcEnd = "EOF" /\ cp.iterations > 0)
        => cp.err = "nil"

\* C18: in the source-buffer and pooled loops every buffer of an iteration is
\* released exactly once.
C18_BuffersReleasedOnce ==
    retired \subseteq {1}

====
